---- MODULE Spec2Model ----
(***************************************************************************)
(* Model of the LockfileEntryDetailsView container of lockfile-explorer-web *)
(* (src/apps/lockfile-explorer-web/src/containers/LockfileEntryDetailsView/ *)
(* index.tsx): the component state (selectedEntry, inspectDependency,       *)
(* influencers), the click handlers selectResolvedEntry and                 *)
(* selectResolvedReferencer, the effect that resets the inspected           *)
(* dependency, and the influencer search over the referrer graph.           *)
(***************************************************************************)
EXTENDS Integers, Sequences, FiniteSets, TLC

(* ------------------------------------------------------------------ *)
(* Bounds and value domains                                           *)
(* ------------------------------------------------------------------ *)

\* largest number of lines (dependency lines and transitivePeerDependencies
\* lines) of a lockfile drawn as input
MaxLines == 3

\* largest number of dependency lines of a lockfile whose entries carry
\* their transitivePeerDependencies annotation
MaxAnnotatedLines == 4

NoEntry == "none"
Null == [name |-> "null", dependencyType |-> "null", entryId |-> "null", resolvedEntry |-> "null"]

EntrySeq == <<"e1", "e2", "e3">>
Entries == {EntrySeq[i] : i \in 1..Len(EntrySeq)}

\* IDependencyType (imported, line 8): only PEER_DEPENDENCY is tested by the component
PEER_DEPENDENCY == "PEER_DEPENDENCY"
DEPENDENCY == "DEPENDENCY"

\* enum DependencyType
Determinant == "Determinant"
TransitiveReferrer == "TransitiveReferrer"

Range(s) == {s[i] : i \in 1..Len(s)}

(* ------------------------------------------------------------------ *)
(* The parsed lockfile graph (input; immutable once built)            *)
(* ------------------------------------------------------------------ *)

\* the dependency shapes an entry may declare, in the order they are listed
\* (entryId names the entry the dependency resolves to, or no entry)
DepSeq ==
  << [name |-> "p", dependencyType |-> PEER_DEPENDENCY, entryId |-> NoEntry],
     [name |-> "p", dependencyType |-> PEER_DEPENDENCY, entryId |-> "e1"],
     [name |-> "p", dependencyType |-> PEER_DEPENDENCY, entryId |-> "e2"],
     [name |-> "p", dependencyType |-> PEER_DEPENDENCY, entryId |-> "e3"],
     [name |-> "q", dependencyType |-> DEPENDENCY, entryId |-> "e1"],
     [name |-> "q", dependencyType |-> DEPENDENCY, entryId |-> "e2"],
     [name |-> "q", dependencyType |-> DEPENDENCY, entryId |-> "e3"] >>

\* a lockfile line: entry `from` declares dependency `dep`, or (dep = 0)
\* entry `from` lists the name "p" in its transitivePeerDependencies
AllLines == [from : Entries, dep : 0..Len(DepSeq)]

RECURSIVE SubsetsUpTo(_, _)
SubsetsUpTo(S, k) ==
  IF k = 0 THEN {{}}
  ELSE LET prev == SubsetsUpTo(S, k - 1)
       IN  prev \cup {T \cup {x} : T \in prev, x \in S}

Lockfiles == SubsetsUpTo(AllLines, MaxLines)

\* larger lockfiles in which every entry carries the
\* transitivePeerDependencies line and no entry depends on itself: up to
\* k dependency lines
DependencyLines ==
  {l \in [from : Entries, dep : 1..Len(DepSeq)] : DepSeq[l.dep].entryId # l.from}

AnnotatedLockfiles(k) ==
  {D \cup [from : Entries, dep : {0}] : D \in SubsetsUpTo(DependencyLines, k)}

\* LockfileDependency objects of an entry: resolvedEntry is the entry whose
\* id is entryId, when there is one
LockfileDependency(i) ==
  [name |-> DepSeq[i].name,
   dependencyType |-> DepSeq[i].dependencyType,
   entryId |-> DepSeq[i].entryId,
   resolvedEntry |-> IF DepSeq[i].entryId \in Entries
                     THEN DepSeq[i].entryId ELSE NoEntry]

AllDependencies == {LockfileDependency(i) : i \in 1..Len(DepSeq)}

DependenciesOf(L, e) ==
  LET idx == SelectSeq([i \in 1..Len(DepSeq) |-> i],
                       LAMBDA i : [from |-> e, dep |-> i] \in L)
  IN  [k \in 1..Len(idx) |-> LockfileDependency(idx[k])]

TransitivePeerDependenciesOf(L, e) ==
  IF [from |-> e, dep |-> 0] \in L THEN {"p"} ELSE {}

\* referrers are back-edges of resolved dependencies: r is a referrer of e
\* when some dependency of r resolves to e
ReferrersOf(L, e) ==
  SelectSeq(EntrySeq,
            LAMBDA r : \E i \in 1..Len(DependenciesOf(L, r)) :
                          DependenciesOf(L, r)[i].resolvedEntry = e)

(* ------------------------------------------------------------------ *)
(* State                                                              *)
(* ------------------------------------------------------------------ *)

VARIABLES
  dependencies,                \* LockfileEntry.dependencies, per entry
  referrers,                   \* LockfileEntry.referrers, per entry
  transitivePeerDependencies,  \* LockfileEntry.transitivePeerDependencies, per entry
  selectedEntry,               \* useAppSelector(selectCurrentEntry)
  inspectDependency,           \* useState: the inspected dependency or Null
  influencers,                 \* useState: the influencer list
  pc,                          \* "idle", or "search" while the while loop runs
  dependencyToTrace,           \* argument of the running/last selectResolvedEntry call
  stack,                       \* locals of the influencer search
  determinants,
  transitiveReferrers,
  visitedNodes,
  pushCount,                   \* history: pushes onto stack per entry in this search
  popCount,                    \* history: pops from stack per entry in this search
  consoleErrors,               \* history: console.error calls of this search
  classLog,                    \* history: classifications of referrers, in order
  inspectOwner,                \* history: selectedEntry when inspectDependency was set
  lastEvent                    \* history: what the last step did

graphVars == <<dependencies, referrers, transitivePeerDependencies>>
searchVars == <<stack, determinants, transitiveReferrers, visitedNodes,
                pushCount, popCount, consoleErrors, classLog>>
vars == <<dependencies, referrers, transitivePeerDependencies, selectedEntry,
          inspectDependency, influencers, pc, dependencyToTrace, stack,
          determinants, transitiveReferrers, visitedNodes, pushCount, popCount,
          consoleErrors, classLog, inspectOwner, lastEvent>>

ZeroCount == [e \in Entries |-> 0]

InitFrom(lockfiles) ==
  /\ \E L \in lockfiles :
       /\ dependencies = [e \in Entries |-> DependenciesOf(L, e)]
       /\ referrers = [e \in Entries |-> ReferrersOf(L, e)]
       /\ transitivePeerDependencies = [e \in Entries |-> TransitivePeerDependenciesOf(L, e)]
  /\ selectedEntry = NoEntry
  /\ inspectDependency = Null
  /\ influencers = <<>>
  /\ pc = "idle"
  /\ dependencyToTrace = Null
  /\ stack = <<>>
  /\ determinants = <<>>
  /\ transitiveReferrers = <<>>
  /\ visitedNodes = {}
  /\ pushCount = ZeroCount
  /\ popCount = ZeroCount
  /\ consoleErrors = <<>>
  /\ classLog = <<>>
  /\ inspectOwner = NoEntry
  /\ lastEvent = "init"

Init == InitFrom(Lockfiles)

AnnotatedInit == InitFrom(AnnotatedLockfiles(MaxAnnotatedLines))

(* ------------------------------------------------------------------ *)
(* Helpers of the handlers                                            *)
(* ------------------------------------------------------------------ *)

\* Set.add on an insertion-ordered JavaScript Set, kept as a sequence
\* without repetitions: adding a present element leaves the order alone
\* variant: an array push instead of Set.add
SetAddDup(s, x) == Append(s, x)

SetAdd(s, x) == IF x \in Range(s) THEN s ELSE Append(s, x)

\* useEffect(..., [selectedEntry]): runs when selectedEntry changed, and
\* resets the inspected dependency when the new selectedEntry is set
\* variant: the effect is missing
InspectAfterEffectKeep(old, new, inspect) == inspect

InspectAfterEffect(old, new, inspect) ==
  IF new # old /\ new # NoEntry THEN Null ELSE inspect

\* the test of the first branch of selectResolvedEntry
IsInspected(inspect, dep) ==
  inspect # Null /\ inspect.entryId = dep.entryId

\* "Check if we need to calculate influencers"
\* variant: the early return is missing
NeedsInfluencersAlways(dep) == TRUE

NeedsInfluencers(dep) == dep.dependencyType = PEER_DEPENDENCY

\* const visitedNodes = new Set(); visitedNodes.add(selectedEntry)
\* variant: the selected entry is not marked visited
InitialVisitedEmpty(entry) == {}

InitialVisited(entry) == {entry}

\* the loop over referrer.dependencies with its break
\* variant: peer dependencies of the referrer are not counted
HasDependencyNonPeer(deps, name) ==
  \E i \in 1..Len(deps) :
     deps[i].name = name /\ deps[i].dependencyType # PEER_DEPENDENCY

HasDependency(deps, name) ==
  \E i \in 1..Len(deps) : deps[i].name = name

\* referrer.transitivePeerDependencies.has(name)
HasTransitive(tpd, name) == name \in tpd

\* the inner loop: for (const referrer of currEntry.referrers) push the
\* referrers of currEntry that were not visited, and mark them visited
\* variant: the inner loop stops after the first referrer
PushFirstOnly(st, refs, i) ==
  IF i > Len(refs) \/ i > 1 THEN st
  ELSE IF refs[i] \notin st.visitedNodes
       THEN [st EXCEPT !.stack = Append(@, refs[i]),
                       !.visitedNodes = @ \cup {refs[i]},
                       !.pushCount[refs[i]] = @ + 1]
       ELSE st

RECURSIVE PushUnvisited(_, _, _)
PushUnvisited(st, refs, i) ==
  IF i > Len(refs) THEN st
  ELSE IF refs[i] \notin st.visitedNodes
       THEN PushUnvisited([st EXCEPT !.stack = Append(@, refs[i]),
                                     !.visitedNodes = @ \cup {refs[i]},
                                     !.pushCount[refs[i]] = @ + 1],
                          refs, i + 1)
       ELSE PushUnvisited(st, refs, i + 1)

\* variant: the diagnostic is reported once per referrer
ExamineReferrerLogOnce(st, referrer, currEntry, name) ==
  IF HasDependency(dependencies[referrer], name)
  THEN [st EXCEPT !.determinants = SetAdd(@, referrer),
                  !.classLog = Append(@, [entry |-> referrer, type |-> Determinant])]
  ELSE LET st1 ==
             IF HasTransitive(transitivePeerDependencies[referrer], name)
             THEN [st EXCEPT !.transitiveReferrers = SetAdd(@, referrer),
                             !.classLog = Append(@, [entry |-> referrer,
                                                     type |-> TransitiveReferrer])]
             ELSE IF \E k \in 1..Len(st.consoleErrors) :
                        st.consoleErrors[k].referrer = referrer
                  THEN st
                  ELSE [st EXCEPT !.consoleErrors = Append(@, [referrer |-> referrer,
                                                               currEntry |-> currEntry])]
       IN  PushUnvisited(st1, referrers[currEntry], 1)

\* variant: the diagnostic branch does not go on to the inner loop
ExamineReferrerAbort(st, referrer, currEntry, name) ==
  IF HasDependency(dependencies[referrer], name)
  THEN [st EXCEPT !.determinants = SetAdd(@, referrer),
                  !.classLog = Append(@, [entry |-> referrer, type |-> Determinant])]
  ELSE IF HasTransitive(transitivePeerDependencies[referrer], name)
       THEN PushUnvisited(
              [st EXCEPT !.transitiveReferrers = SetAdd(@, referrer),
                         !.classLog = Append(@, [entry |-> referrer,
                                                 type |-> TransitiveReferrer])],
              referrers[currEntry], 1)
       ELSE [st EXCEPT !.consoleErrors = Append(@, [referrer |-> referrer,
                                                    currEntry |-> currEntry])]

\* one iteration of the outer for loop: classify `referrer`
ExamineReferrer(st, referrer, currEntry, name) ==
  IF HasDependency(dependencies[referrer], name)
  THEN [st EXCEPT !.determinants = SetAdd(@, referrer),
                  !.classLog = Append(@, [entry |-> referrer, type |-> Determinant])]
  ELSE LET st1 ==
             IF HasTransitive(transitivePeerDependencies[referrer], name)
             THEN [st EXCEPT !.transitiveReferrers = SetAdd(@, referrer),
                             !.classLog = Append(@, [entry |-> referrer,
                                                     type |-> TransitiveReferrer])]
             ELSE [st EXCEPT !.consoleErrors = Append(@, [referrer |-> referrer,
                                                          currEntry |-> currEntry])]
       IN  PushUnvisited(st1, referrers[currEntry], 1)

\* for (const referrer of currEntry.referrers) { ... }
RECURSIVE ForEachReferrer(_, _, _, _)
ForEachReferrer(st, currEntry, name, i) ==
  IF i > Len(referrers[currEntry]) THEN st
  ELSE ForEachReferrer(ExamineReferrer(st, referrers[currEntry][i], currEntry, name),
                       currEntry, name, i + 1)

\* the two loops that fill the influencer list from the two sets
\* variant: each of the two sets is listed in the order of the entry ids
BuildInfluencersSorted(dets, trans) ==
  LET sdets == SelectSeq(EntrySeq, LAMBDA e : e \in Range(dets))
      strans == SelectSeq(EntrySeq, LAMBDA e : e \in Range(trans))
  IN  [i \in 1..Len(sdets) |-> [entry |-> sdets[i], type |-> Determinant]]
      \o [i \in 1..Len(strans) |-> [entry |-> strans[i], type |-> TransitiveReferrer]]

BuildInfluencers(dets, trans) ==
  [i \in 1..Len(dets) |-> [entry |-> dets[i], type |-> Determinant]]
  \o [i \in 1..Len(trans) |-> [entry |-> trans[i], type |-> TransitiveReferrer]]

(* ------------------------------------------------------------------ *)
(* Actions                                                            *)
(* ------------------------------------------------------------------ *)

\* the store makes `entry` the current entry (another view of the app
\* selects an entry, or clears the selection); the effect then runs
SelectEntry(entry) ==
  /\ pc = "idle"
  /\ selectedEntry' = entry
  /\ inspectDependency' = InspectAfterEffect(selectedEntry, entry, inspectDependency)
  /\ inspectOwner' = IF inspectDependency' = Null THEN NoEntry ELSE inspectOwner
  /\ lastEvent' = "selectEntry"
  /\ UNCHANGED <<graphVars, searchVars, influencers, pc, dependencyToTrace>>

\* selectResolvedEntry(dep)(), first branch with a resolved entry:
\* dispatch(pushToStack(resolvedEntry)) makes it the current entry
NavigateToDependency(dep) ==
  /\ pc = "idle"
  /\ selectedEntry # NoEntry
  /\ dep \in Range(dependencies[selectedEntry])
  /\ IsInspected(inspectDependency, dep)
  /\ dep.resolvedEntry # NoEntry
  /\ selectedEntry' = dep.resolvedEntry
  /\ inspectDependency' = InspectAfterEffect(selectedEntry, dep.resolvedEntry, inspectDependency)
  /\ inspectOwner' = IF inspectDependency' = Null THEN NoEntry ELSE inspectOwner
  /\ lastEvent' = "navigate"
  /\ UNCHANGED <<graphVars, searchVars, influencers, pc, dependencyToTrace>>

\* selectResolvedEntry(dep)(), first branch without a resolved entry:
\* logDiagnosticInfo only
NoResolvedEntry(dep) ==
  /\ pc = "idle"
  /\ selectedEntry # NoEntry
  /\ dep \in Range(dependencies[selectedEntry])
  /\ IsInspected(inspectDependency, dep)
  /\ dep.resolvedEntry = NoEntry
  /\ lastEvent' = "noResolvedEntry"
  /\ UNCHANGED <<graphVars, searchVars, influencers, pc, selectedEntry, dependencyToTrace,
                 inspectDependency, inspectOwner>>

\* selectResolvedEntry(dep)(), second branch, dependency that is not a
\* peer dependency: setInspectDependency and return
InspectOnly(dep) ==
  /\ pc = "idle"
  /\ selectedEntry # NoEntry
  /\ dep \in Range(dependencies[selectedEntry])
  /\ ~IsInspected(inspectDependency, dep)
  /\ ~NeedsInfluencers(dep)
  /\ inspectDependency' = dep
  /\ inspectOwner' = selectedEntry
  /\ lastEvent' = "inspect"
  /\ UNCHANGED <<graphVars, searchVars, influencers, pc, selectedEntry, dependencyToTrace>>

\* selectResolvedEntry(dep)(), second branch, peer dependency:
\* setInspectDependency and set up the search
StartSearch(dep) ==
  /\ pc = "idle"
  /\ selectedEntry # NoEntry
  /\ dep \in Range(dependencies[selectedEntry])
  /\ ~IsInspected(inspectDependency, dep)
  /\ NeedsInfluencers(dep)
  /\ dependencyToTrace' = dep
  /\ inspectDependency' = dep
  /\ inspectOwner' = selectedEntry
  /\ stack' = <<selectedEntry>>
  /\ determinants' = <<>>
  /\ transitiveReferrers' = <<>>
  /\ visitedNodes' = InitialVisited(selectedEntry)
  /\ pushCount' = [ZeroCount EXCEPT ![selectedEntry] = 1]
  /\ popCount' = ZeroCount
  /\ consoleErrors' = <<>>
  /\ classLog' = <<>>
  /\ pc' = "search"
  /\ lastEvent' = "search"
  /\ UNCHANGED <<graphVars, influencers, selectedEntry>>

\* one iteration of while (stack.length): pop an entry, run the for loop
SearchStep ==
  /\ pc = "search"
  /\ stack # <<>>
  /\ LET currEntry == stack[Len(stack)]
         st0 == [stack |-> SubSeq(stack, 1, Len(stack) - 1),
                 determinants |-> determinants,
                 transitiveReferrers |-> transitiveReferrers,
                 visitedNodes |-> visitedNodes,
                 pushCount |-> pushCount,
                 consoleErrors |-> consoleErrors,
                 classLog |-> classLog]
         st1 == ForEachReferrer(st0, currEntry, dependencyToTrace.name, 1)
     IN  /\ stack' = st1.stack
         /\ determinants' = st1.determinants
         /\ transitiveReferrers' = st1.transitiveReferrers
         /\ visitedNodes' = st1.visitedNodes
         /\ pushCount' = st1.pushCount
         /\ consoleErrors' = st1.consoleErrors
         /\ classLog' = st1.classLog
         /\ popCount' = [popCount EXCEPT ![currEntry] = @ + 1]
  /\ lastEvent' = "searchStep"
  /\ UNCHANGED <<graphVars, selectedEntry, inspectDependency, influencers, pc,
                 dependencyToTrace, inspectOwner>>

\* the loop has ended: build the list and setInfluencers
FinishSearch ==
  /\ pc = "search"
  /\ stack = <<>>
  /\ influencers' = BuildInfluencers(determinants, transitiveReferrers)
  /\ pc' = "idle"
  /\ lastEvent' = "setInfluencers"
  /\ dependencyToTrace' = Null
  /\ determinants' = <<>>
  /\ transitiveReferrers' = <<>>
  /\ visitedNodes' = {}
  /\ pushCount' = ZeroCount
  /\ popCount' = ZeroCount
  /\ consoleErrors' = <<>>
  /\ classLog' = <<>>
  /\ UNCHANGED <<graphVars, stack, selectedEntry, inspectDependency, inspectOwner>>

\* the referrers and influencers that are rendered as links
ReferrerLinks ==
  Range(referrers[selectedEntry]) \cup
  (IF /\ inspectDependency # Null
      /\ inspectDependency.dependencyType = PEER_DEPENDENCY
   THEN {influencers[i].entry : i \in 1..Len(influencers)} ELSE {})

\* selectResolvedReferencer(referrer)(): dispatch(pushToStack(referrer))
ClickReferrer(referrer) ==
  /\ pc = "idle"
  /\ selectedEntry # NoEntry
  /\ referrer \in ReferrerLinks
  /\ selectedEntry' = referrer
  /\ inspectDependency' = InspectAfterEffect(selectedEntry, referrer, inspectDependency)
  /\ inspectOwner' = IF inspectDependency' = Null THEN NoEntry ELSE inspectOwner
  /\ lastEvent' = "referrer"
  /\ UNCHANGED <<graphVars, searchVars, influencers, pc, dependencyToTrace>>

Next ==
  \/ \E entry \in Entries \cup {NoEntry} : SelectEntry(entry)
  \/ \E dep \in AllDependencies :
          \/ NavigateToDependency(dep)
          \/ NoResolvedEntry(dep)
          \/ InspectOnly(dep)
          \/ StartSearch(dep)
  \/ SearchStep
  \/ FinishSearch
  \/ \E referrer \in Entries : ClickReferrer(referrer)

Spec == Init /\ [][Next]_vars

\* the handler runs to completion once it has started
FairSpec == Spec /\ WF_vars(SearchStep) /\ WF_vars(FinishSearch)

\* the component over the larger, annotated lockfiles
AnnotatedSpec == AnnotatedInit /\ [][Next]_vars

TypeOK ==
  /\ selectedEntry \in Entries \cup {NoEntry}
  /\ inspectDependency \in AllDependencies \cup {Null}
  /\ pc \in {"idle", "search"}
  /\ visitedNodes \subseteq Entries
  /\ Range(stack) \subseteq Entries

(* ------------------------------------------------------------------ *)
(* Vocabulary of the properties                                       *)
(* ------------------------------------------------------------------ *)

\* the while loop has ended and setInfluencers has not run yet
LoopDone == pc = "search" /\ stack = <<>>

\* the step that delivers the influencer list
Delivers == pc = "search" /\ pc' = "idle"

TargetName == dependencyToTrace.name

DeclaresTarget(e) ==
  TargetName \in {dependencies[e][i].name : i \in 1..Len(dependencies[e])}

CarriesTarget(e) ==
  ~DeclaresTarget(e) /\ TargetName \in transitivePeerDependencies[e]

Unannotated(e) ==
  ~DeclaresTarget(e) /\ TargetName \notin transitivePeerDependencies[e]

Popped == {c \in Entries : popCount[c] > 0}

\* the popped entries that have e as a referrer
PoppedReferents(e) == {c \in Popped : e \in Range(referrers[c])}

\* the referrers examined so far
ExaminedReferrers == {e \in Entries : PoppedReferents(e) # {}}

ErrorCount(e) ==
  Cardinality({i \in 1..Len(consoleErrors) : consoleErrors[i].referrer = e})

Occurrences(list, e) ==
  Cardinality({i \in 1..Len(list) : list[i].entry = e})

Listed(list, e, t) == \E i \in 1..Len(list) : list[i] = [entry |-> e, type |-> t]

RECURSIVE FirstOccurrences(_)
FirstOccurrences(s) ==
  IF s = <<>> THEN <<>>
  ELSE LET front == FirstOccurrences(SubSeq(s, 1, Len(s) - 1))
           x == s[Len(s)]
       IN  IF x \in Range(front) THEN front ELSE Append(front, x)

DiscoveredAs(t) == FirstOccurrences(SelectSeq(classLog, LAMBDA r : r.type = t))

(* ------------------------------------------------------------------ *)
(* Properties                                                         *)
(* ------------------------------------------------------------------ *)

\* C1: a referrer that declares a dependency with the target name is never
\* pushed onto the work stack (the selected entry, which starts on the
\* stack, aside).
C1_DeterminantNeverPushed ==
  pc = "search" =>
    \A e \in Entries \ {selectedEntry} : DeclaresTarget(e) => pushCount[e] = 0

\* C2: when the list is delivered, every examined referrer that declares a
\* dependency with the target name is in it exactly once, as Determinant.
C2_DeterminantListedOnce ==
  [][Delivers =>
       \A e \in ExaminedReferrers :
          DeclaresTarget(e) =>
            /\ Occurrences(influencers', e) = 1
            /\ Listed(influencers', e, Determinant)]_vars

\* a declaring referrer was examined for two popped entries
C2_Witness ==
  /\ LoopDone
  /\ \E e \in Entries : DeclaresTarget(e) /\ Cardinality(PoppedReferents(e)) >= 2

\* C3: every examined referrer that does not declare the target name but
\* lists it in transitivePeerDependencies is marked visited as soon as it
\* is examined, has been popped (its own referrers examined) when the loop
\* ends, and is delivered as TransitiveReferrer.
C3_TransitiveListedAndExpanded ==
  /\ [][Delivers =>
          \A e \in ExaminedReferrers :
             CarriesTarget(e) =>
               /\ Listed(influencers', e, TransitiveReferrer)
               /\ Occurrences(influencers', e) = 1
               /\ popCount[e] = 1
               /\ Range(referrers[e]) \subseteq ExaminedReferrers]_vars
  /\ [][pc' = "search" =>
          \A e \in ExaminedReferrers' : CarriesTarget(e)' => e \in visitedNodes']_vars

\* a transitive referrer other than the selected entry was expanded to a
\* referrer of its own
C3_Witness ==
  /\ LoopDone
  /\ \E e \in Entries \ {selectedEntry} :
        /\ CarriesTarget(e)
        /\ e \in ExaminedReferrers
        /\ referrers[e] # <<>>
        /\ popCount[e] = 1

\* C4 as stated: the diagnostic is emitted exactly once for each examined
\* referrer that neither declares the target name nor lists it.
C4_DiagnosticOncePerNode ==
  LoopDone =>
    \A e \in ExaminedReferrers : Unannotated(e) => ErrorCount(e) = 1

\* C4 amended: the diagnostic is emitted once for each popped entry that
\* has the unannotated referrer among its referrers (once per examined
\* referrer edge), and never for any other pair.
C4_DiagnosticOncePerEdge ==
  LoopDone =>
    \A e \in Entries, c \in Entries :
       Cardinality({i \in 1..Len(consoleErrors) :
                      consoleErrors[i] = [referrer |-> e, currEntry |-> c]})
         = IF Unannotated(e) /\ c \in PoppedReferents(e) THEN 1 ELSE 0

\* an unannotated referrer was reported for two popped entries
C4_Witness ==
  /\ LoopDone
  /\ \E e \in Entries : Unannotated(e) /\ ErrorCount(e) = 2

\* C5: the search, once started, reaches the end of its loop with an empty
\* stack, and no entry is pushed or popped more than once.
C5_Terminates ==
  /\ (pc = "search") ~> (pc = "idle")
  /\ [][Delivers => stack = <<>>]_vars
  /\ [][\A e \in Entries : pushCount'[e] <= 1 /\ popCount'[e] <= 1]_vars

\* the search ran through a referrer cycle that contains the selected entry
C5_Witness ==
  /\ LoopDone
  /\ \E e \in Popped \ {selectedEntry} :
        /\ selectedEntry \in Range(referrers[e])
        /\ e \in Range(referrers[selectedEntry])

\* C6: once a diagnostic has been emitted the search still pops the
\* reported referrer (its referrers are examined) and the delivered list
\* holds every examined Determinant and TransitiveReferrer.
C6_ContinuesAfterDiagnostic ==
  [][Delivers /\ consoleErrors # <<>> =>
       /\ \A i \in 1..Len(consoleErrors) :
             /\ popCount[consoleErrors[i].referrer] = 1
             /\ Range(referrers[consoleErrors[i].referrer]) \subseteq ExaminedReferrers
       /\ \A e \in ExaminedReferrers :
             /\ DeclaresTarget(e) => Listed(influencers', e, Determinant)
             /\ CarriesTarget(e) => Listed(influencers', e, TransitiveReferrer)]_vars

\* a referrer was classified only through the expansion of a reported one
C6_Witness ==
  /\ LoopDone
  /\ \E i \in 1..Len(consoleErrors) :
        \E r \in Range(referrers[consoleErrors[i].referrer]) :
           /\ r \notin Range(referrers[selectedEntry])
           /\ r # consoleErrors[i].referrer
           /\ \E k \in 1..Len(classLog) : classLog[k].entry = r

\* C7: a click handled without starting a search (every click on a
\* dependency that is not a peer dependency is one) leaves the influencer
\* list, the visited set and the diagnostics alone, and a search is only
\* started for a peer dependency.
C7_NoTraversalForNonPeer ==
  [][/\ lastEvent' = "search" =>
          dependencyToTrace'.dependencyType = PEER_DEPENDENCY
     /\ lastEvent' \in {"inspect", "navigate", "noResolvedEntry"} =>
          /\ influencers' = influencers
          /\ visitedNodes' = visitedNodes
          /\ consoleErrors' = consoleErrors
          /\ popCount' = popCount
          /\ pc' = "idle"
     /\ lastEvent' = "inspect" =>
          /\ inspectDependency'.dependencyType # PEER_DEPENDENCY
          /\ selectedEntry' = selectedEntry]_vars

\* a dependency that is not a peer dependency was selected while a
\* computed influencer list was stored
C7_Witness ==
  /\ lastEvent = "inspect"
  /\ inspectDependency.dependencyType = DEPENDENCY
  /\ influencers # <<>>

\* C8: the delivered list is the Determinants in order of first discovery
\* followed by the TransitiveReferrers in order of first discovery.
C8_PartitionedInDiscoveryOrder ==
  [][Delivers =>
       influencers' = DiscoveredAs(Determinant) \o DiscoveredAs(TransitiveReferrer)]_vars

\* two TransitiveReferrers were discovered in an order that is not the
\* order of their ids, the first of them before a Determinant, and some
\* entry was classified more than once
C8_Witness ==
  /\ LoopDone
  /\ Len(transitiveReferrers) >= 2
  /\ transitiveReferrers # SelectSeq(EntrySeq, LAMBDA e : e \in Range(transitiveReferrers))
  /\ classLog[1].type = TransitiveReferrer
  /\ determinants # <<>>
  /\ Len(classLog) > Len(determinants) + Len(transitiveReferrers)

\* C9 as stated: the selected entry is not in the list delivered for one
\* of its own peer dependencies.
C9_SelectedEntryNeverListed ==
  lastEvent = "setInfluencers" =>
    \A i \in 1..Len(influencers) : influencers[i].entry # selectedEntry

\* C9 amended: the selected entry is never pushed a second time; it is in
\* the delivered list exactly when it is a referrer of a popped entry, and
\* then once, as Determinant.
C9_SelectedEntryListedOnCycle ==
  /\ [][Delivers =>
          /\ Occurrences(influencers', selectedEntry)
               = IF selectedEntry \in ExaminedReferrers THEN 1 ELSE 0
          /\ ~Listed(influencers', selectedEntry, TransitiveReferrer)]_vars
  /\ [][pc' = "search" => pushCount'[selectedEntry'] = 1]_vars

\* the selected entry was examined as a referrer of another popped entry
C9_Witness ==
  /\ LoopDone
  /\ \E c \in Popped \ {selectedEntry} : selectedEntry \in Range(referrers[c])
  /\ selectedEntry \in Range(determinants)

\* C10: a dependency click navigates only when the inspected dependency
\* has the entryId of a dependency of the selected entry and was set by a
\* click on the entry that is selected now; a change of the selected entry
\* to another entry resets the inspected dependency.
C10_NavigateOnlyAfterSelect ==
  /\ [][lastEvent' = "navigate" =>
          /\ inspectDependency # Null
          /\ inspectOwner = selectedEntry
          /\ \E d \in Range(dependencies[selectedEntry]) :
                /\ d.entryId = inspectDependency.entryId
                /\ d.resolvedEntry = selectedEntry']_vars
  /\ [][selectedEntry' # selectedEntry /\ selectedEntry' # NoEntry =>
          inspectDependency' = Null]_vars
  /\ [][inspectDependency' # Null /\ selectedEntry' # NoEntry =>
          inspectOwner' = selectedEntry']_vars

\* a second click navigated to another entry, where nothing is inspected
C10_Witness ==
  /\ lastEvent = "navigate"
  /\ inspectDependency = Null
  /\ selectedEntry # NoEntry

====
